---- MODULE Spec2Model ----
(***************************************************************************)
(* Navi X backend (src/backend.py): authority registration and login,      *)
(* bearer tokens with an 8 hour lifetime, and the bus registry endpoints.  *)
(*                                                                         *)
(* Every HTTP handler is one action.  The ghost variables req and resp     *)
(* record the request just handled and the response it got; they are what  *)
(* a client observes.  Time is counted in whole hours.                     *)
(*                                                                         *)
(* Bus is declared as a plain class, not as a db.Model, while every bus     *)
(* handler uses it through Bus.query and db.session as a mapped table.     *)
(* The registry is modelled as the handlers use it: a table of Bus rows in *)
(* insertion order, the primary key of a row being its position.           *)
(***************************************************************************)
EXTENDS Integers, Sequences, FiniteSets, TLC

VARIABLES authorities, buses, tokens, now, req, resp, pend

vars == <<authorities, buses, tokens, now, req, resp, pend>>

\* ------------------------------------------------------------- bounds
MaxAuthorities == 2
MaxBuses == 2
MaxTokens == 1
MaxTime == 9
LastLoginHour == 1
BusHours == 2

\* ------------------------------------------------- program constants
ExpiresHours == 8
DefaultCapacity == 40

\* ------------------------------------------------------------- inputs
\* A missing form field or JSON key is the empty string (falsy in Python).
Missing == ""
Names == {"u1", "u2"}
Passwords == {"p1", "p2"}
\* An uploaded file name, as its parts between dots; <<>> is no upload.
NoFile == <<>>
FileNames == {<<"doc", "pdf">>, <<"doc", "EXE">>, <<"doc">>}

ALLOWED_EXTENSIONS == {"pdf", "png", "jpg", "jpeg"}

lower(s) ==
    CASE s = "PDF" -> "pdf"
      [] s = "EXE" -> "exe"
      [] OTHER -> s

allowed_file(filename) ==
    /\ Len(filename) > 1
    /\ lower(filename[Len(filename)]) \in ALLOWED_EXTENSIONS

\* ---------------------------------------------------- password hashes
generate_password_hash(password) == [method |-> "pbkdf2", of |-> password]

check_password_hash(pwhash, password) ==
    /\ pwhash.method = "pbkdf2"
    /\ pwhash.of = password

check_password(auth, password) == check_password_hash(auth.password_hash, password)

\* ------------------------------------------------------------- tokens
Secret == "JWT_SECRET_KEY"
NoToken == [sub |-> Missing, nbf |-> 0, exp |-> 0, sig |-> "none"]
ForgedTokens == {[sub |-> "u1", nbf |-> 0, exp |-> 2 * ExpiresHours + MaxTime, sig |-> "forged"]}

create_access_token_short(identity, t) ==
    [sub |-> identity, nbf |-> t, exp |-> t + ExpiresHours - 1, sig |-> Secret]

create_access_token(identity, t) ==
    [sub |-> identity, nbf |-> t, exp |-> t + ExpiresHours, sig |-> Secret]

jwt_required_unsigned(tok, t) ==
    /\ tok.sig # "none"
    /\ tok.nbf <= t
    /\ t < tok.exp

\* The token is accepted: signed with the server's key, and not expired.
jwt_required(tok, t) ==
    /\ tok.sig = Secret
    /\ tok.nbf <= t
    /\ t < tok.exp

Unauthorized(op, tok) ==
    /\ req' = [op |-> op, tok |-> tok]
    /\ resp' = [op |-> op, code |-> 401]
    /\ UNCHANGED <<authorities, buses, tokens, now, pend>>

\* -------------------------------------------------- credential store
\* Authority.query.filter((username == u) | (email == e)): the matching rows.
FilterUsernameOnly(auths, username, email) ==
    {i \in DOMAIN auths : auths[i].username = username}

FilterUsernameOrEmail(auths, username, email) ==
    {i \in DOMAIN auths : auths[i].username = username \/ auths[i].email = email}

Authority(id, username, email, department, password) ==
    [id |-> id, username |-> username, email |-> email, department |-> department,
     password_hash |-> generate_password_hash(password), verified |-> TRUE]

register_authority(username, email, department, password, file) ==
    /\ req' = [op |-> "register", username |-> username, email |-> email,
               password |-> password, file |-> file]
    /\ UNCHANGED <<buses, tokens, now, pend>>
    /\ IF username = Missing \/ email = Missing \/ password = Missing
          \/ department = Missing \/ file = NoFile
       THEN /\ resp' = [op |-> "register", code |-> 400, msg |-> "Missing required fields"]
            /\ UNCHANGED authorities
       ELSE IF ~allowed_file(file)
       THEN /\ resp' = [op |-> "register", code |-> 400, msg |-> "File type not allowed"]
            /\ UNCHANGED authorities
       ELSE IF FilterUsernameOrEmail(authorities, username, email) # {}
       THEN /\ resp' = [op |-> "register", code |-> 400,
                        msg |-> "Username or email already registered"]
            /\ UNCHANGED authorities
       ELSE /\ Len(authorities) < MaxAuthorities
            /\ authorities' = Append(authorities,
                   Authority(Len(authorities) + 1, username, email, department, password))
            /\ resp' = [op |-> "register", code |-> 201, msg |-> "Registration successful"]

\* login: .first() has no ORDER BY, so any matching row may be the one returned.
login(identifier, password) ==
    /\ req' = [op |-> "login", identifier |-> identifier, password |-> password]
    /\ UNCHANGED <<authorities, buses, now, pend>>
    /\ IF identifier = Missing \/ password = Missing
       THEN /\ resp' = [op |-> "login", code |-> 400, token |-> NoToken]
            /\ UNCHANGED tokens
       ELSE LET rows == FilterUsernameOrEmail(authorities, identifier, identifier)
            IN  IF rows = {}
                THEN /\ resp' = [op |-> "login", code |-> 401, token |-> NoToken]
                     /\ UNCHANGED tokens
                ELSE \E i \in rows :
                       IF ~check_password(authorities[i], password)
                       THEN /\ resp' = [op |-> "login", code |-> 401, token |-> NoToken]
                            /\ UNCHANGED tokens
                       ELSE LET access_token == create_access_token(authorities[i].username, now)
                            IN  /\ Cardinality(tokens \cup {access_token}) <= MaxTokens
                                /\ tokens' = tokens \cup {access_token}
                                /\ resp' = [op |-> "login", code |-> 200, token |-> access_token]

\* The clock: one hour passes.
Tick(limit) ==
    /\ now < limit
    /\ now' = now + 1
    /\ req' = [op |-> "tick"]
    /\ resp' = [op |-> "tick", code |-> 0]
    /\ UNCHANGED <<authorities, buses, tokens, pend>>

\* Tokens a client can present: none, a forged one, or one a login issued.
Presentable == tokens \cup ForgedTokens \cup {NoToken}

\* ------------------------------------------------------- JSON values
JStr(chars) == [t |-> "str", v |-> chars]
JInt(n) == [t |-> "int", v |-> n]

Digits == <<"0", "1", "2", "3", "4", "5", "6", "7", "8", "9">>
IsDigit(c) == \E d \in DOMAIN Digits : Digits[d] = c
DigitVal(c) == (CHOOSE d \in DOMAIN Digits : Digits[d] = c) - 1

RECURSIVE lstrip(_)
lstrip(cs) == IF cs # <<>> /\ Head(cs) = " " THEN lstrip(Tail(cs)) ELSE cs

RECURSIVE rstrip(_)
rstrip(cs) ==
    IF cs # <<>> /\ cs[Len(cs)] = " " THEN rstrip(SubSeq(cs, 1, Len(cs) - 1)) ELSE cs

strip(cs) == rstrip(lstrip(cs))

unsigned(cs) == IF cs # <<>> /\ Head(cs) \in {"+", "-"} THEN Tail(cs) ELSE cs

RECURSIVE digits_value(_)
digits_value(cs) ==
    IF cs = <<>> THEN 0
    ELSE 10 * digits_value(SubSeq(cs, 1, Len(cs) - 1)) + DigitVal(cs[Len(cs)])

\* int(x) raises ValueError unless x is an integer literal: optional blanks,
\* an optional sign, then one or more decimal digits.
int_raises(x) ==
    /\ x.t = "str"
    /\ LET body == unsigned(strip(x.v))
       IN  body = <<>> \/ \E k \in DOMAIN body : ~IsDigit(body[k])

int(x) ==
    IF x.t = "int" THEN x.v
    ELSE LET s == strip(x.v)
         IN  IF Head(s) = "-" THEN 0 - digits_value(unsigned(s))
             ELSE digits_value(unsigned(s))

\* ------------------------------------------------------ bus registry
UpdatableFields ==
    {"name", "route", "lat", "lng", "status", "driver", "speed", "capacity", "passengers"}

Get(data, key, default) == IF key \in DOMAIN data THEN data[key] ELSE default

\* Bus.__init__ as add_bus calls it: the remaining fields take their defaults.
Bus(name, route, lat, lng, driver, t) ==
    [name |-> name, route |-> route, lat |-> lat, lng |-> lng, status |-> "On Time",
     driver |-> driver, speed |-> 0, capacity |-> DefaultCapacity, passengers |-> 0,
     updated_at |-> t]

to_dict(bs, i) == [id |-> i, bus |-> bs[i]]

get_or_404_clamped(bs, bus_id) ==
    IF bus_id \in DOMAIN bs THEN bus_id ELSE Len(bs)

\* Bus.query.get_or_404(bus_id): the row's key, or 0 when the request aborts with 404.
get_or_404(bs, bus_id) ==
    IF bus_id \in DOMAIN bs THEN bus_id ELSE 0

\* db.session.commit(): one transaction that writes, for every row the session
\* loaded and changed, the changed columns.
commit_first_row_only(db, loaded, changed) ==
    LET dirty == {i \in DOMAIN changed : changed[i] # loaded[i]}
    IN  [i \in DOMAIN db |->
            IF i \in dirty /\ \A j \in dirty : i <= j
            THEN [f \in DOMAIN db[i] |->
                    IF changed[i][f] # loaded[i][f] THEN changed[i][f] ELSE db[i][f]]
            ELSE db[i]]

commit(db, loaded, changed) ==
    [i \in DOMAIN db |->
        IF i \in DOMAIN changed
        THEN [f \in DOMAIN db[i] |->
                IF changed[i][f] # loaded[i][f] THEN changed[i][f] ELSE db[i][f]]
        ELSE db[i]]

list_buses ==
    /\ req' = [op |-> "list", tok |-> NoToken]
    /\ resp' = [op |-> "list", code |-> 200,
                list |-> [i \in DOMAIN buses |-> to_dict(buses, i)]]
    /\ UNCHANGED <<authorities, buses, tokens, now, pend>>

add_bus(tok, data) ==
    IF ~jwt_required(tok, now) THEN Unauthorized("add", tok)
    ELSE
    /\ req' = [op |-> "add", tok |-> tok, data |-> data]
    /\ UNCHANGED <<authorities, tokens, now, pend>>
    /\ LET name == Get(data, "name", Missing)
           route == Get(data, "route", Missing)
           lat == Get(data, "lat", 0)
           lng == Get(data, "lng", 0)
           driver == Get(data, "driver", "New Driver")
       IN  IF name = Missing \/ route = Missing
           THEN /\ resp' = [op |-> "add", code |-> 400]
                /\ UNCHANGED buses
           ELSE /\ Len(buses) < MaxBuses
                /\ buses' = Append(buses, Bus(name, route, lat, lng, driver, now))
                /\ resp' = [op |-> "add", code |-> 201,
                            bus |-> to_dict(buses', Len(buses'))]

\* The setattr loop of update_bus.
set_fields(bus, data) ==
    [f \in DOMAIN bus |->
        IF f \in UpdatableFields /\ f \in DOMAIN data THEN data[f] ELSE bus[f]]

update_bus(tok, bus_id, data) ==
    IF ~jwt_required(tok, now) THEN Unauthorized("update", tok)
    ELSE
    /\ req' = [op |-> "update", tok |-> tok, id |-> bus_id, data |-> data]
    /\ UNCHANGED <<authorities, tokens, now, pend>>
    /\ LET i == get_or_404(buses, bus_id)
       IN  IF i = 0
           THEN /\ resp' = [op |-> "update", code |-> 404]
                /\ UNCHANGED buses
           ELSE /\ buses' = commit(buses, buses,
                                   [buses EXCEPT ![i] = set_fields(buses[i], data)])
                /\ resp' = [op |-> "update", code |-> 200, bus |-> to_dict(buses', i)]

\* bus_action's dispatch: the response code and the bus as the handler leaves it.
\* 500 is the unhandled ValueError of int().
dispatch(bus, data) ==
    LET action == Get(data, "action", Missing)
    IN  IF action = "emergency_stop"
        THEN [code |-> 200, bus |-> [bus EXCEPT !.status = "Emergency Stop"]]
        ELSE IF action = "set_status" /\ "status" \in DOMAIN data
        THEN [code |-> 200, bus |-> [bus EXCEPT !.status = data.status]]
        ELSE IF action = "update_passengers" /\ "passengers" \in DOMAIN data
        THEN IF int_raises(data.passengers)
             THEN [code |-> 500, bus |-> bus]
             ELSE [code |-> 200, bus |-> [bus EXCEPT !.passengers = int(data.passengers)]]
        ELSE [code |-> 400, bus |-> bus]

bus_action(tok, bus_id, data) ==
    IF ~jwt_required(tok, now) THEN Unauthorized("action", tok)
    ELSE
    /\ req' = [op |-> "action", tok |-> tok, id |-> bus_id, data |-> data]
    /\ UNCHANGED <<authorities, tokens, now, pend>>
    /\ LET i == get_or_404(buses, bus_id)
       IN  IF i = 0
           THEN /\ resp' = [op |-> "action", code |-> 404]
                /\ UNCHANGED buses
           ELSE LET out == dispatch(buses[i], data)
                IN  IF out.code # 200
                    THEN /\ resp' = [op |-> "action", code |-> out.code]
                         /\ UNCHANGED buses
                    ELSE /\ buses' = commit(buses, buses, [buses EXCEPT ![i] = out.bus])
                         /\ resp' = [op |-> "action", code |-> 200,
                                     bus |-> to_dict(buses', i)]

\* The loop of emergency_all over the rows Bus.query.all() returned.
stop_all_but_last(rows) ==
    [i \in DOMAIN rows |->
        IF i < Len(rows) THEN [rows[i] EXCEPT !.status = "Emergency Stop"] ELSE rows[i]]

stop_all(rows) == [i \in DOMAIN rows |-> [rows[i] EXCEPT !.status = "Emergency Stop"]]

emergency_all(tok) ==
    IF ~jwt_required(tok, now) THEN Unauthorized("emergency", tok)
    ELSE
    /\ req' = [op |-> "emergency", tok |-> tok]
    /\ buses' = commit(buses, buses, stop_all(buses))
    /\ resp' = [op |-> "emergency", code |-> 200, affected |-> Len(buses)]
    /\ UNCHANGED <<authorities, tokens, now, pend>>

\* One report line: "<name> - <route> - <status> - <passengers>/<capacity> passengers".
report_line(b) == <<b.name, " - ", b.route, " - ", b.status, " - ", b.passengers, "/",
                    b.capacity, " passengers">>

generate_report(tok) ==
    IF ~jwt_required(tok, now) THEN Unauthorized("report", tok)
    ELSE
    /\ req' = [op |-> "report", tok |-> tok]
    /\ resp' = [op |-> "report", code |-> 200, identity |-> tok.sub,
                report |-> [i \in DOMAIN buses |-> report_line(buses[i])]]
    /\ UNCHANGED <<authorities, buses, tokens, now, pend>>

\* --------------------------------------------- request payloads tried
BusIds == 1 .. MaxBuses + 1
AddPayloads ==
    {[name |-> "X1", route |-> "R1"],
     [name |-> "X1"],
     [route |-> "R1", driver |-> "Dana"]}
UpdatePayloads ==
    {[status |-> "Delayed"],
     [passengers |-> 5, updated_at |-> 0],
     <<>>}
ActionPayloads ==
    {[action |-> "emergency_stop"],
     [action |-> "set_status", status |-> "Delayed"],
     [action |-> "set_status"],
     [action |-> "update_passengers", passengers |-> JStr(<<"5">>)],
     [action |-> "update_passengers", passengers |-> JStr(<<"a", "b", "c">>)],
     [action |-> "update_passengers", passengers |-> JStr(<<"-", "3">>)],
     [action |-> "update_passengers", passengers |-> JStr(<<" ", "5">>)],
     [action |-> "update_passengers", passengers |-> JInt(5)],
     [action |-> "update_passengers"],
     [action |-> "honk"]}

NoPend == [active |-> FALSE]

\* ------------------------------- credential store and session issuer
Init ==
    /\ authorities = <<>>
    /\ buses = <<>>
    /\ tokens = {}
    /\ now = 0
    /\ req = [op |-> "init"]
    /\ resp = [op |-> "init", code |-> 0]
    /\ pend = NoPend

Register ==
    \E username \in Names \cup {Missing}, email \in Names, password \in Passwords,
       file \in FileNames \cup {NoFile} :
        register_authority(username, email, "Transport", password, file)

Login == \E identifier \in Names \cup {Missing}, password \in Passwords :
            now <= LastLoginHour /\ login(identifier, password)

Report == \E tok \in Presentable : generate_report(tok)

TickAuth == Tick(MaxTime)

NextAuth == Register \/ Login \/ Report \/ TickAuth

SpecAuth == Init /\ [][NextAuth]_vars

\* ------------------------------------------------------ bus registry
\* The registry is exercised from the state in which one authority has
\* registered and logged in at hour 0, and BusStart hours have passed.
BusStart == ExpiresHours - 2

InitBus ==
    /\ authorities = <<Authority(1, "u1", "u2", "Transport", "p1")>>
    /\ buses = <<>>
    /\ tokens = {create_access_token("u1", 0)}
    /\ now = BusStart
    /\ req = [op |-> "init"]
    /\ resp = [op |-> "init", code |-> 0]
    /\ pend = NoPend

List == list_buses
\* A request the token gate turns away is tried with one id and one payload:
\* the handler's body never sees them.
IdsWith(tok) == IF jwt_required(tok, now) THEN BusIds ELSE {1}
PayloadsWith(tok, payloads) ==
    IF jwt_required(tok, now) THEN payloads ELSE {CHOOSE d \in payloads : TRUE}

Add == \E tok \in Presentable : \E data \in PayloadsWith(tok, AddPayloads) :
            add_bus(tok, data)
UpdateWith(payloads) ==
    \E tok \in Presentable :
        \E id \in IdsWith(tok), data \in PayloadsWith(tok, payloads) :
            update_bus(tok, id, data)
ActionWith(payloads) ==
    \E tok \in Presentable :
        \E id \in IdsWith(tok), data \in PayloadsWith(tok, payloads) :
            bus_action(tok, id, data)
Update == UpdateWith(UpdatePayloads)
Action == ActionWith(ActionPayloads)
Emergency == \E tok \in Presentable : emergency_all(tok)
TickBus == Tick(BusStart + BusHours)

NextBus == List \/ Add \/ Update \/ Action \/ Emergency \/ Report \/ TickBus

SpecBus == InitBus /\ [][NextBus]_vars

\* ------------------------------------- the broadcast among other requests
\* emergency_all in two steps, with other requests handled in between: the
\* read of Bus.query.all(), then the loop and db.session.commit().
emergency_read(tok) ==
    IF ~jwt_required(tok, now) THEN Unauthorized("emergency", tok)
    ELSE
    /\ ~pend.active
    /\ pend' = [active |-> TRUE, tok |-> tok, rows |-> buses]
    /\ req' = [op |-> "emergency_read", tok |-> tok]
    /\ resp' = [op |-> "emergency_read", code |-> 0]
    /\ UNCHANGED <<authorities, buses, tokens, now>>

emergency_commit ==
    /\ pend.active
    /\ buses' = commit(buses, pend.rows, stop_all(pend.rows))
    /\ req' = [op |-> "emergency", tok |-> pend.tok]
    /\ resp' = [op |-> "emergency", code |-> 200, affected |-> Len(pend.rows),
                read |-> pend.rows]
    /\ pend' = NoPend
    /\ UNCHANGED <<authorities, tokens, now>>

\* The commit raises (the database is locked, the connection is lost): the
\* transaction is rolled back and the request ends with 500.
emergency_rollback ==
    /\ pend.active
    /\ req' = [op |-> "emergency", tok |-> pend.tok]
    /\ resp' = [op |-> "emergency", code |-> 500, affected |-> 0, read |-> pend.rows]
    /\ pend' = NoPend
    /\ UNCHANGED <<authorities, buses, tokens, now>>

EmergencyRead == \E tok \in Presentable : emergency_read(tok)

\* The requests handled while a broadcast is in flight.
ConcUpdatePayloads == {[status |-> "On Time"]}
ConcActionPayloads ==
    {[action |-> "emergency_stop"],
     [action |-> "update_passengers", passengers |-> JStr(<<"5">>)]}
ConcUpdate == UpdateWith(ConcUpdatePayloads)
ConcAction == ActionWith(ConcActionPayloads)

NextConc ==
    \/ EmergencyRead \/ emergency_commit \/ emergency_rollback
    \/ List \/ Add \/ ConcUpdate \/ ConcAction

SpecConc == InitBus /\ [][NextConc]_vars

\* =============================================================== claims
ProtectedOps == {"add", "update", "action", "emergency", "report"}
MutatingOps == {"add", "update", "action", "emergency"}

\* tok was issued by a login and its 8 hours have not elapsed at hour t.
SessionLive(tok, t) == tok \in tokens /\ t < tok.nbf + ExpiresHours

\* C1: stored authorities never share a username or an email, and a register
\* call whose username or email is already stored answers 400 and adds nothing.
C1_UniqueUsernameAndEmail ==
    [][/\ \A i, j \in DOMAIN authorities' :
            i # j => /\ authorities'[i].username # authorities'[j].username
                     /\ authorities'[i].email # authorities'[j].email
       /\ (/\ req'.op = "register"
           /\ \E i \in DOMAIN authorities :
                \/ authorities[i].username = req'.username
                \/ authorities[i].email = req'.email)
          => /\ resp'.code = 400
             /\ authorities' = authorities]_vars

\* C1 witness: a registration with a fresh username and a stored email was refused.
C1_Witness ==
    /\ req.op = "register"
    /\ resp.code = 400
    /\ resp.msg = "Username or email already registered"
    /\ Len(authorities) = 1
    /\ authorities[1].username # req.username
    /\ authorities[1].email = req.email

\* C2: a login that succeeds issues, at the current hour, a token whose subject
\* is the username of the authority that matched the identifier and password;
\* a protected request carrying an issued token is let through as that username
\* exactly while fewer than 8 hours have passed since issuance, and is answered
\* 401 from then on, whatever else has happened in between.
C2_TokenLifetime ==
    /\ (resp.op = "login" /\ resp.code = 200)
       => /\ resp.token \in tokens
          /\ resp.token.nbf = now
          /\ \E i \in DOMAIN authorities :
                /\ authorities[i].username = resp.token.sub
                /\ req.identifier \in {authorities[i].username, authorities[i].email}
                /\ authorities[i].password_hash.of = req.password
    /\ (req.op = "report" /\ req.tok \in tokens)
       => IF now < req.tok.nbf + ExpiresHours
          THEN resp.code = 200 /\ resp.identity = req.tok.sub
          ELSE resp.code = 401

\* C2 witness: an issued token is refused exactly 8 hours after its issuance.
C2_Witness ==
    /\ req.op = "report"
    /\ req.tok \in tokens
    /\ now = req.tok.nbf + ExpiresHours
    /\ resp.code = 401

C5_BadPassengersIs400 ==
    [][(/\ req'.op = "action"
        /\ SessionLive(req'.tok, now)
        /\ req'.id \in DOMAIN buses
        /\ Get(req'.data, "action", Missing) = "update_passengers"
        /\ "passengers" \in DOMAIN req'.data
        /\ int_raises(req'.data.passengers))
       => (resp'.code = 400 /\ buses' = buses)]_vars

C8_UpdatedAtRefreshed ==
    [][\A i \in DOMAIN buses : buses'[i] # buses[i] => buses'[i].updated_at = now]_vars

\* C9: passengers and capacity of every bus are non-negative integers.
C9_NonNegative ==
    \A i \in DOMAIN buses :
        /\ buses[i].passengers \in Nat
        /\ buses[i].capacity \in Nat

InitBusReached ==
    /\ authorities = <<Authority(1, "u1", "u2", "Transport", "p1")>>
    /\ tokens = {create_access_token("u1", 0)}
    /\ now = BusStart
    /\ buses = <<>>

====
